---- MODULE Spec2Model ----
(***************************************************************************)
(* Offline memory planner of the JIT (torch/csrc/jit/passes/                *)
(* memory_planning.cpp): extraction of live ranges from a recorded          *)
(* allocation trace, static planning over a graph, and materialization of   *)
(* the plan as AllocateStorage / AllocateTensor / PreAllocateTensor nodes.  *)
(***************************************************************************)
EXTENDS Integers, Sequences, FiniteSets, TLC

VARIABLES
    mode,                    \* entry point: "static" | "trace" | "sweep" | ...
    pc,                      \* "start" | "sweep" | "returned" | "aborted"
    err,                     \* which assertion / check threw ("none" if none)
    strat,                   \* Strategy argument ("unset" before the call)
    graph,                   \* the graph's node list, in order
    graph0,                  \* the graph as it was handed to the call
    mem_events,              \* std::vector<MemEvent> argument
    idx,                     \* number of events the sweep has processed
    allocs,                  \* unordered_map<string, MemEvent> of the sweep
    managed_live_ranges,     \* unordered_map<LiveRange, uint64_t>
    live_range_node_header,  \* vector<pair<LiveRange, FrameNodeId>>
    allocation_plan,         \* unordered_map<LiveRange, Region> allocations: the plan
    registered,              \* allocator registered for the device (c10::SetAllocator)
    guards,                  \* the live WithProfileAllocationsGuard objects, oldest first
    handles,                 \* DataPtrs handed out by the tracing allocator, not yet released
    calls,                   \* the allocate / release calls made so far, in order
    allocs_,                 \* MemoryPlanningAllocator::allocs_, top of the stack last
    last,                    \* what the last allocator call did
    apc                      \* "ok" | "crashed" | "undefined": the allocator's process

planVars == <<mode, pc, err, strat, graph, graph0, mem_events, idx, allocs,
              managed_live_ranges, live_range_node_header, allocation_plan>>

allocVars == <<registered, guards, handles, calls, allocs_, last, apc>>

vars == <<planVars, allocVars>>

sweepVars == <<mem_events, idx, allocs, managed_live_ranges, live_range_node_header>>

----------------------------------------------------------------------------
(* Bounds of the model *)

MaxEvents == 3      \* longest event list handed to getLiveRangesFromMemEvents
MaxPlanEvents == 2  \* longest event list handed to planMemoryWithTracing
MaxPtr == 2         \* distinct ptr_addr strings
MaxSize == 2        \* largest tensor / allocation size
MaxTag == 2         \* distinct node_schema / node_header strings
MaxGap == 1         \* largest time step between consecutive events
MaxNodes == 2       \* nodes of the input graph
MaxOutputs == 2     \* outputs per node
MaxTime == 3        \* latest timestamp of a live range handed to the materializer
MaxRanges == 2      \* live ranges handed to the materializer

Ptrs == 1..MaxPtr
Sizes == 1..MaxSize
Tags == 1..MaxTag
Types == {"Allocate", "Free"}

MaxOf(S) == CHOOSE x \in S : \A y \in S : y <= x

MinOf(S) == CHOOSE x \in S : \A y \in S : x <= y

(* lexicographic order on tuples of integers of one length *)
LexLeq(a, b) ==
    \E k \in 1..(Len(a) + 1) :
        /\ \A j \in 1..(k - 1) : a[j] = b[j]
        /\ k = Len(a) + 1 \/ a[k] < b[k]

----------------------------------------------------------------------------
(* Arena model *)

LiveRange(b, e) == [begin |-> b, end |-> e]

Region(o, s) == [offset |-> o, size |-> s]

FrameNodeId(t, schema, header) ==
    [time |-> t, node_schema |-> schema, node_header |-> header]

MemEvent(t, p, schema, header, s, ty) ==
    [time |-> t, ptr_addr |-> p, node_schema |-> schema,
     node_header |-> header, size |-> s, type |-> ty]

EmptyMap == [x \in {} |-> 0]

(* std::unordered_map::insert: an existing key keeps its value *)
MapInsert(m, k, v) == IF k \in DOMAIN m THEN m ELSE (k :> v) @@ m

(* operator[] assignment: the key's value is replaced *)
MapPut(m, k, v) == (k :> v) @@ m

----------------------------------------------------------------------------
(* getLiveRangesFromMemEvents: one sweep over the events *)

FreeCheckNoSize(alloc, ev) ==
    /\ alloc.type = "Allocate"
    /\ alloc.time < ev.time
    /\ alloc.node_schema = ev.node_schema

(* the condition of the TORCH_INTERNAL_ASSERT on a Free; the node_header
   comparison is the second macro argument (part of the message), so it is
   evaluated but never decides the assertion *)
FreeCheck(alloc, ev) ==
    /\ alloc.type = "Allocate"
    /\ alloc.size = ev.size
    /\ alloc.time < ev.time
    /\ alloc.node_schema = ev.node_schema

EndCheckDropped(a) == TRUE

(* TORCH_INTERNAL_ASSERT(allocs.empty()) after the loop *)
EndCheck(a) == DOMAIN a = {}

(* loop body, Allocate branch *)
SweepAllocate ==
    /\ pc = "sweep"
    /\ idx < Len(mem_events)
    /\ mem_events[idx + 1].type = "Allocate"
    /\ LET ev == mem_events[idx + 1] IN
         allocs' = MapInsert(allocs, ev.ptr_addr, ev)
    /\ idx' = idx + 1
    /\ UNCHANGED <<mode, pc, err, strat, graph, graph0, mem_events,
                   managed_live_ranges, live_range_node_header, allocation_plan,
                   allocVars>>

(* loop body, Free branch: the two assertions, then the emitted range.  The
   entry of allocs is left in place: the loop never erases from allocs. *)
SweepFree ==
    /\ pc = "sweep"
    /\ idx < Len(mem_events)
    /\ mem_events[idx + 1].type = "Free"
    /\ idx' = idx + 1
    /\ LET ev == mem_events[idx + 1] IN
         IF ev.ptr_addr \notin DOMAIN allocs
         THEN /\ pc' = "aborted"
              /\ err' = "free_without_alloc"
              /\ UNCHANGED <<managed_live_ranges, live_range_node_header>>
         ELSE LET alloc == allocs[ev.ptr_addr] IN
              IF ~FreeCheck(alloc, ev)
              THEN /\ pc' = "aborted"
                   /\ err' = "free_mismatch"
                   /\ UNCHANGED <<managed_live_ranges, live_range_node_header>>
              ELSE LET lvr == LiveRange(alloc.time, ev.time) IN
                   /\ managed_live_ranges' =
                          MapInsert(managed_live_ranges, lvr, alloc.size)
                   /\ live_range_node_header' =
                          Append(live_range_node_header,
                                 [lvr |-> lvr,
                                  frame |-> FrameNodeId(alloc.time,
                                                        alloc.node_schema,
                                                        alloc.node_header)])
                   /\ UNCHANGED <<pc, err>>
    /\ UNCHANGED <<mode, strat, graph, graph0, mem_events, allocs, allocation_plan,
                   allocVars>>

(* end of the sweep when getLiveRangesFromMemEvents is the entry point *)
SweepReturn ==
    /\ mode = "sweep"
    /\ pc = "sweep"
    /\ idx = Len(mem_events)
    /\ IF EndCheck(allocs)
       THEN pc' = "returned" /\ err' = err
       ELSE pc' = "aborted" /\ err' = "not_all_freed"
    /\ UNCHANGED <<mode, strat, graph, graph0, sweepVars, allocation_plan, allocVars>>

----------------------------------------------------------------------------
(* Graph: the node list.  Every node is a record of one shape; an operator
   node carries its outputs (size: numel * elementSize, 0 for an empty
   tensor, -1 when computeStorageSize has no answer; aa: always alive; end:
   the last timestamp at which the value is live), an inserted node carries
   its attributes.  A value is <<id of its node, output slot>>.  The
   operands a node has before planning are not read by the planner and are
   left out: inputs lists the inputs added by the planner. *)

NoVal == <<0, 0>>

StorageOut == <<0, 0>>

OpNode(i, out, h, os) ==
    [kind |-> "op", id |-> i, hasOut |-> out, header |-> h, outs |-> os,
     inputs |-> <<>>, size |-> 0, offset |-> 0, total_size |-> 0,
     lvr |-> LiveRange(0, 0), val |-> NoVal]

Strategies == {"NAIVE", "LINEAR_SCAN", "GREEDY_BY_SIZE", "GREEDY_BY_BREADTH"}

(* the number of nodes graph->create has made so far: an inserted node's id
   is its place in the order of creation, 0 for the storage node *)
Created(g) == Cardinality({ p \in 1..Len(g) : g[p].kind # "op" })

InsertBefore(g, p, n) == SubSeq(g, 1, p - 1) \o <<n>> \o SubSeq(g, p, Len(g))

(* position of the operator node with the given id *)
PosOf(g, i) == CHOOSE p \in 1..Len(g) : g[p].kind = "op" /\ g[p].id = i

ValuesOf(g) ==
    UNION { { <<g[p].id, k>> : k \in 1..Len(g[p].outs) } :
              p \in { q \in 1..Len(g) : g[q].kind = "op" } }

OutOf(g, v) == g[PosOf(g, v[1])].outs[v[2]]

(* jit::GetAlwaysAliveValues *)
AlwaysAlive(g) == { v \in ValuesOf(g) : OutOf(g, v).aa }

(* jit::GetLiveness(...).second: a value is live from the timestamp of the
   node that defines it to its last use *)
Liveness(g) ==
    [v \in ValuesOf(g) \ AlwaysAlive(g) |-> LiveRange(v[1], OutOf(g, v).end)]

(* computeStorageSize: nullopt is -1 *)
computeStorageSize(g, v) == OutOf(g, v).size

hasOutVariant(n) == n.kind = "op" /\ n.hasOut

getManagedValuesAlive(g, always_alive) ==
    LET outPos == { p \in 1..Len(g) : hasOutVariant(g[p]) }
        managed == { v \in ValuesOf(g) :
                        /\ PosOf(g, v[1]) \in outPos
                        /\ computeStorageSize(g, v) > 0 }
    IN [out_nodes |-> SelectSeq([p \in 1..Len(g) |-> g[p].id],
                                LAMBDA i : hasOutVariant(g[PosOf(g, i)])),
        sizes |-> [v \in managed |-> computeStorageSize(g, v)]]

(* getManagedValues: (out_nodes, managed_tensor_values) *)
getManagedValues(g, always_alive) ==
    LET outPos == { p \in 1..Len(g) : hasOutVariant(g[p]) }
        managed == { v \in ValuesOf(g) :
                        /\ PosOf(g, v[1]) \in outPos
                        /\ v \notin always_alive
                        /\ computeStorageSize(g, v) > 0 }
    IN [out_nodes |-> SelectSeq([p \in 1..Len(g) |-> g[p].id],
                                LAMBDA i : hasOutVariant(g[PosOf(g, i)])),
        sizes |-> [v \in managed |-> computeStorageSize(g, v)]]

getManagedStuffAllRanges(g) ==
    LET mv == getManagedValues(g, AlwaysAlive(g))
    IN [out_nodes |-> mv.out_nodes, sizes |-> mv.sizes, ranges |-> Liveness(g)]

(* getManagedStuff: (out_nodes, managed_tensor_values, managed_ranges) *)
getManagedStuff(g) ==
    LET always_alive == AlwaysAlive(g)
        live_ranges == Liveness(g)
        mv == getManagedValues(g, always_alive)
    IN [out_nodes |-> mv.out_nodes,
        sizes |-> mv.sizes,
        ranges |-> [v \in DOMAIN live_ranges \cap DOMAIN mv.sizes |->
                        live_ranges[v]]]

getTotalAllocationSizeMin(allocations) == 0

(* getTotalAllocationSize *)
getTotalAllocationSize(allocations) ==
    IF DOMAIN allocations = {} THEN 0
    ELSE MaxOf({ allocations[l].offset + allocations[l].size :
                   l \in DOMAIN allocations })

----------------------------------------------------------------------------
(* Packing heuristics (linear_scan.h, greedy_by_size.h, greedy_by_breadth.h) *)

Overlap(a, b) == a.begin <= b.end /\ b.begin <= a.end

Collide(r1, r2) ==
    r1.offset < r2.offset + r2.size /\ r2.offset < r1.offset + r1.size

(* the lowest offset at which a block of the given size collides with no
   blocker: 0, or the offset right after one of the blockers *)
LowestFit(size, blockers) ==
    MinOf({ c \in {0} \cup { b.offset + b.size : b \in blockers } :
              \A b \in blockers : ~Collide(Region(c, size), b) })

(* the elements of S as a sequence ascending in key[x], a tuple of integers *)
RECURSIVE SortedBy(_, _)
SortedBy(S, key) ==
    IF S = {} THEN <<>>
    ELSE LET m == CHOOSE x \in S : \A y \in S : LexLeq(key[x], key[y])
         IN <<m>> \o SortedBy(S \ {m}, key)

(* place the ranges in the given order, each at the lowest offset that fits
   among the regions of the placed ranges it overlaps *)
RECURSIVE PlaceInOrder(_, _, _)
PlaceInOrder(order, sizes, plan) ==
    IF order = <<>> THEN plan
    ELSE LET l == Head(order)
             blockers == { plan[k] : k \in { x \in DOMAIN plan : Overlap(x, l) } }
             r == Region(LowestFit(sizes[l], blockers), sizes[l])
         IN PlaceInOrder(Tail(order), sizes, MapPut(plan, l, r))

(* begin ascending, then end ascending *)
StartKey(S) == [l \in S |-> <<l.begin, l.end>>]

linearScanHeuristic(mlr) ==
    PlaceInOrder(SortedBy(DOMAIN mlr, StartKey(DOMAIN mlr)), mlr, EmptyMap)

(* size descending, then begin ascending, then end ascending *)
greedyBySize(mlr) ==
    PlaceInOrder(
        SortedBy(DOMAIN mlr,
                 [l \in DOMAIN mlr |-> <<0 - mlr[l], l.begin, l.end>>]),
        mlr, EmptyMap)

RECURSIVE SumOver(_, _)
SumOver(S, f) ==
    IF S = {} THEN 0
    ELSE LET x == CHOOSE y \in S : TRUE IN f[x] + SumOver(S \ {x}, f)

(* the values of the nodes, node after node, each node's outputs in order *)
RECURSIVE ValuesInOrder(_, _)
ValuesInOrder(nodes, sizes) ==
    IF nodes = <<>> THEN <<>>
    ELSE SortedBy({ v \in DOMAIN sizes : v[1] = Head(nodes) },
                  [v \in DOMAIN sizes |-> <<v[2]>>])
             \o ValuesInOrder(Tail(nodes), sizes)

RECURSIVE PlaceValues(_, _, _, _)
PlaceValues(vals, sizes, ranges, plan) ==
    IF vals = <<>> THEN plan
    ELSE LET v == Head(vals)
             l == ranges[v]
             blockers == { plan[k] : k \in { x \in DOMAIN plan : Overlap(x, l) } }
             r == Region(LowestFit(sizes[v], blockers), sizes[v])
         IN PlaceValues(Tail(vals), sizes, ranges, MapPut(plan, l, r))

(* operators by breadth (sum of the sizes of the managed values live at the
   operator's timestamp) descending, graph order among equals *)
greedyByOperatorBreadth(sizes, ranges, out_nodes) ==
    LET ids == { out_nodes[k] : k \in 1..Len(out_nodes) }
        breadth == [i \in ids |->
                      SumOver({ v \in DOMAIN sizes :
                                  ranges[v].begin <= i /\ i <= ranges[v].end },
                              sizes)]
        order == SortedBy(ids, [i \in ids |-> <<0 - breadth[i], i>>])
    IN PlaceValues(ValuesInOrder(order, sizes), sizes, ranges, EmptyMap)

----------------------------------------------------------------------------
(* Plan materializer *)

(* insertAllocStorageNode: the storage node goes to the front *)
insertAllocStorageNode(g, total_size) ==
    <<[OpNode(0, FALSE, 0, <<>>) EXCEPT
          !.kind = "AllocateStorage", !.total_size = total_size]>> \o g

(* allocations[lvr] of a by-value copy: a missing key yields Region{} *)
RegionOf(allocations, lvr) ==
    IF lvr \in DOMAIN allocations THEN allocations[lvr] ELSE Region(0, 0)

SetAllocAttrsSwapped(alloc, region) ==
    [alloc EXCEPT !.size = region.size, !.offset = 0]

(* alloc->i_(attr::size, region.size); alloc->i_(attr::offset, region.offset) *)
SetAllocAttrs(alloc, region) ==
    [alloc EXCEPT !.size = region.size, !.offset = region.offset]

(* insertAllocTensorNodes: items is managed_range_values in map order.  The
   producer gains the input and the node is inserted before the TORCH_CHECK
   of the placement, which throws with the attributes not yet written. *)
RECURSIVE insertAllocTensorNodes(_, _, _)
insertAllocTensorNodes(g, allocations, items) ==
    IF items = <<>> THEN [graph |-> g, pc |-> "returned", err |-> "none"]
    ELSE LET lvr == Head(items).lvr
             v == Head(items).val
             region == RegionOf(allocations, lvr)
             total_size == g[1].total_size
             p == PosOf(g, v[1])
             alloc == [OpNode(0, FALSE, 0, <<>>) EXCEPT
                          !.kind = "AllocateTensor", !.id = Created(g),
                          !.inputs = <<StorageOut>>, !.lvr = lvr, !.val = v]
             g1 == [g EXCEPT ![p].inputs = Append(@, v)]
         IN IF region.offset + region.size <= total_size
            THEN insertAllocTensorNodes(
                     InsertBefore(g1, p, SetAllocAttrs(alloc, region)),
                     allocations, Tail(items))
            ELSE [graph |-> InsertBefore(g1, p, alloc), pc |-> "aborted",
                  err |-> "exceeds_total_size"]

StaticEarlyReturnNever(s) == FALSE

(* the switch of planMemory returns without planning for NAIVE (and for a
   value outside the enumeration) *)
StaticEarlyReturn(s) ==
    s \notin {"LINEAR_SCAN", "GREEDY_BY_SIZE", "GREEDY_BY_BREADTH"}

(* live_range_start_cmp: by begin *)
StartLess(a, b) == a.begin < b.begin

(* what std::map<LiveRange, const Value*, live_range_start_cmp> can hold after
   the values are inserted in the (unspecified) order of the unordered_map:
   one value for each class of ranges the comparator cannot tell apart *)
RangeValueChoices(ranges) ==
    { R \in SUBSET DOMAIN ranges :
        \A v \in DOMAIN ranges :
            Cardinality({ r \in R : /\ ~StartLess(ranges[r], ranges[v])
                                     /\ ~StartLess(ranges[v], ranges[r]) }) = 1 }

(* what managed_live_ranges can hold after lines 382-384: every range of a
   managed value, with the size of the value of that range written last *)
LiveRangeSizeChoices(sizes, ranges) ==
    { m \in [{ ranges[v] : v \in DOMAIN sizes } -> Sizes] :
        \A l \in DOMAIN m : \E v \in DOMAIN sizes : ranges[v] = l /\ sizes[v] = m[l] }

managedRangeValuesUnordered(ranges, R) ==
    SortedBy({ [lvr |-> ranges[v], val |-> v] : v \in R },
             [x \in { [lvr |-> ranges[v], val |-> v] : v \in R }
                 |-> <<0 - x.lvr.begin>>])

(* managed_range_values as the loop of insertAllocTensorNodes walks it: a
   std::map is iterated in the order of its comparator, begin ascending *)
managedRangeValues(ranges, R) ==
    SortedBy({ [lvr |-> ranges[v], val |-> v] : v \in R },
             [x \in { [lvr |-> ranges[v], val |-> v] : v \in R }
                 |-> <<x.lvr.begin>>])

(* planMemory after getManagedStuff, for one outcome of the two iterations
   over unordered maps *)
planMemoryBody(g, s, sizes, ranges0, out_nodes, mlr, R) ==
    LET ranges == [v \in DOMAIN sizes |->
                      IF v \in DOMAIN ranges0 THEN ranges0[v] ELSE LiveRange(0, 0)]
    IN IF StaticEarlyReturn(s)
       THEN [graph |-> g, pc |-> "returned", err |-> "none",
             allocations |-> EmptyMap]
       ELSE LET allocations ==
                    CASE s = "LINEAR_SCAN" -> linearScanHeuristic(mlr)
                      [] s = "GREEDY_BY_SIZE" -> greedyBySize(mlr)
                      [] s = "GREEDY_BY_BREADTH" ->
                             greedyByOperatorBreadth(sizes, ranges, out_nodes)
                      [] OTHER -> EmptyMap
                total_size == getTotalAllocationSize(allocations)
                items == managedRangeValues(ranges, R)
                r == insertAllocTensorNodes(insertAllocStorageNode(g, total_size),
                                            allocations, items)
            IN [graph |-> r.graph, pc |-> r.pc, err |-> r.err,
                allocations |-> allocations]

(* planMemory(graph, strat) *)
PlanMemory ==
    /\ mode = "static"
    /\ pc = "start"
    /\ \E s \in Strategies :
         LET ms == getManagedStuff(graph)
             ranges == [v \in DOMAIN ms.sizes |->
                           IF v \in DOMAIN ms.ranges THEN ms.ranges[v]
                           ELSE LiveRange(0, 0)]
         IN \E mlr \in LiveRangeSizeChoices(ms.sizes, ranges),
               R \in RangeValueChoices(ranges) :
              LET r == planMemoryBody(graph, s, ms.sizes, ms.ranges,
                                      ms.out_nodes, mlr, R)
              IN /\ strat' = s
                 /\ graph' = r.graph
                 /\ pc' = r.pc
                 /\ err' = r.err
                 /\ managed_live_ranges' = mlr
                 /\ allocation_plan' = r.allocations
    /\ UNCHANGED <<mode, graph0, mem_events, idx, allocs, live_range_node_header,
                   allocVars>>

----------------------------------------------------------------------------
(* Trace mode *)

(* the elements of s with begin in keys, ascending in begin *)
RECURSIVE ByBegin(_, _)
ByBegin(s, keys) ==
    IF keys = {} THEN <<>>
    ELSE LET b == MinOf(keys)
         IN SelectSeq(s, LAMBDA x : x.begin = b) \o ByBegin(s, keys \ {b})

(* collectLiveRangesPerNode: the ranges grouped by FrameNodeId, each group
   sorted by begin, the groups sorted by time *)
collectLiveRangesPerNode(lrnh) ==
    LET frames == { lrnh[k].frame : k \in 1..Len(lrnh) }
        lvrsOf(f) ==
            LET mine == SelectSeq(lrnh, LAMBDA x : x.frame = f)
                ls == [k \in 1..Len(mine) |-> mine[k].lvr]
            IN ByBegin(ls, { ls[k].begin : k \in 1..Len(ls) })
        order == SortedBy(frames,
                          [f \in frames |-> <<f.time, f.node_schema, f.node_header>>])
    IN [k \in 1..Len(order) |-> [frame |-> order[k], lvrs |-> lvrsOf(order[k])]]

(* getHeader / canonicalSchemaString of a node; an inserted node has none of
   the traced headers *)
getHeader(n) == IF n.kind = "op" THEN n.header ELSE 0

(* the loop "while (!header.compare(frame_id.node_header)) node++":
   compare is 0 on equal strings, so the cursor moves on while the headers
   are EQUAL and stops at the first node whose header differs; Len(g) + 1 is
   the end of the node list *)
RECURSIVE AdvanceCursor(_, _, _)
AdvanceCursor(g, c, header) ==
    IF c <= Len(g) /\ getHeader(g[c]) = header
    THEN AdvanceCursor(g, c + 1, header)
    ELSE c

(* one PreAllocateTensor per range, each inserted before the cursor's node *)
RECURSIVE InsertPreAllocs(_, _, _, _)
InsertPreAllocs(g, c, allocations, lvrs) ==
    IF lvrs = <<>> THEN [graph |-> g, cursor |-> c]
    ELSE LET region == RegionOf(allocations, Head(lvrs))
             alloc == SetAllocAttrs(
                          [OpNode(0, FALSE, 0, <<>>) EXCEPT
                              !.kind = "PreAllocateTensor", !.id = Created(g),
                              !.lvr = Head(lvrs)],
                          region)
         IN InsertPreAllocs(InsertBefore(g, c, alloc), c + 1, allocations,
                            Tail(lvrs))

(* insertPreAllocTensorNodes; a cursor that leaves the node list ends the
   call with an error *)
RECURSIVE insertPreAllocTensorNodes(_, _, _, _)
insertPreAllocTensorNodes(g, c, allocations, groups) ==
    IF groups = <<>> THEN [graph |-> g, pc |-> "returned", err |-> "none"]
    ELSE LET frame_id == Head(groups).frame
             node == AdvanceCursor(g, c, frame_id.node_header)
         IN IF node > Len(g)
            THEN [graph |-> g, pc |-> "aborted", err |-> "cursor_past_end"]
            ELSE LET r == InsertPreAllocs(g, node, allocations, Head(groups).lvrs)
                 IN insertPreAllocTensorNodes(r.graph, r.cursor, allocations,
                                              Tail(groups))

TraceEarlyReturnNaiveOnly(s) == s = "NAIVE"

(* the switch of planMemoryWithTracing returns without planning for NAIVE and
   through its default label, which GREEDY_BY_BREADTH takes *)
TraceEarlyReturn(s) == s \notin {"LINEAR_SCAN", "GREEDY_BY_SIZE"}

(* planMemoryWithTracing after getLiveRangesFromMemEvents has returned;
   allocations starts as the greedy-by-size plan *)
planMemoryWithTracingBody(g, s, mlr, lrnh) ==
    IF TraceEarlyReturn(s)
    THEN [graph |-> g, pc |-> "returned", err |-> "none",
          allocations |-> greedyBySize(mlr)]
    ELSE LET allocations ==
                 IF s = "LINEAR_SCAN" THEN linearScanHeuristic(mlr)
                 ELSE greedyBySize(mlr)
             total_size == getTotalAllocationSize(allocations)
             r == insertPreAllocTensorNodes(
                      insertAllocStorageNode(g, total_size), 1,
                      allocations, collectLiveRangesPerNode(lrnh))
         IN [graph |-> r.graph, pc |-> r.pc, err |-> r.err,
             allocations |-> allocations]

(* planMemoryWithTracing(graph, strat, mem_events): entry *)
TraceEnter ==
    /\ mode = "trace"
    /\ pc = "start"
    /\ \E s \in Strategies : strat' = s
    /\ IF mem_events = <<>>
       THEN pc' = "aborted" /\ err' = "empty_trace"
       ELSE pc' = "sweep" /\ err' = err
    /\ UNCHANGED <<mode, graph, graph0, sweepVars, allocation_plan, allocVars>>

(* planMemoryWithTracing: the end of getLiveRangesFromMemEvents and the rest
   of the call *)
TraceFinish ==
    /\ mode = "trace"
    /\ pc = "sweep"
    /\ idx = Len(mem_events)
    /\ LET r == IF EndCheck(allocs)
                THEN planMemoryWithTracingBody(graph, strat, managed_live_ranges,
                                               live_range_node_header)
                ELSE [graph |-> graph, pc |-> "aborted", err |-> "not_all_freed",
                      allocations |-> allocation_plan]
       IN /\ graph' = r.graph
          /\ pc' = r.pc
          /\ err' = r.err
          /\ allocation_plan' = r.allocations
    /\ UNCHANGED <<mode, strat, graph0, sweepVars, allocVars>>

(* lines 342-371 of planMemoryWithTracing on their own: the switch and the
   materialization, entered with a pair (managed_live_ranges,
   live_range_node_header) of the shape the extraction hands over *)
PlanTraced ==
    /\ mode = "plan_traced"
    /\ pc = "start"
    /\ \E s \in Strategies :
         LET r == planMemoryWithTracingBody(graph, s, managed_live_ranges,
                                            live_range_node_header)
         IN /\ strat' = s
            /\ graph' = r.graph
            /\ pc' = r.pc
            /\ err' = r.err
            /\ allocation_plan' = r.allocations
    /\ UNCHANGED <<mode, graph0, sweepVars, allocVars>>

(* insertPreAllocTensorNodes(graph, storage, allocations,
   collected_node_live_ranges) called on a graph that holds the storage node *)
PreAllocDirect ==
    /\ mode = "prealloc"
    /\ pc = "start"
    /\ LET r == insertPreAllocTensorNodes(
                    graph, 1, allocation_plan,
                    collectLiveRangesPerNode(live_range_node_header))
       IN /\ graph' = r.graph
          /\ pc' = r.pc
          /\ err' = r.err
    /\ UNCHANGED <<mode, strat, graph0, sweepVars, allocation_plan, allocVars>>

----------------------------------------------------------------------------
(* Inputs *)

Events ==
    [time : 1..(1 + MaxGap * (MaxEvents - 1)), ptr_addr : Ptrs,
     node_schema : Tags, node_header : Tags, size : Sizes, type : Types]

(* an event list in chronological order: the first event is at time 1 and
   times never decrease *)
Chronological(evs) ==
    /\ Len(evs) > 0 => evs[1].time = 1
    /\ \A i \in 1..(Len(evs) - 1) :
          /\ evs[i].time <= evs[i + 1].time
          /\ evs[i + 1].time <= evs[i].time + MaxGap

(* the allocator side while a planner call is modelled: nothing installed *)
DefaultAllocator == <<"default", 0>>

NoCall == [op |-> "none"]

InitNoAllocator ==
    /\ registered = DefaultAllocator
    /\ guards = <<>>
    /\ handles = <<>>
    /\ calls = <<>>
    /\ allocs_ = <<>>
    /\ last = NoCall
    /\ apc = "ok"

InitSweep ==
    /\ mode = "sweep"
    /\ allocation_plan = EmptyMap
    /\ InitNoAllocator
    /\ pc = "sweep"
    /\ err = "none"
    /\ strat = "unset"
    /\ graph = <<>>
    /\ graph0 = <<>>
    /\ idx = 0
    /\ allocs = EmptyMap
    /\ managed_live_ranges = EmptyMap
    /\ live_range_node_header = <<>>
    /\ \E n \in 0..MaxEvents : mem_events \in [1..n -> Events]
    /\ Chronological(mem_events)

NextSweep == SweepAllocate \/ SweepFree \/ SweepReturn

SpecSweep == InitSweep /\ [][NextSweep]_vars

(* the outputs a node of the graph can have *)
OutRecs(sizes, aas) == [size : sizes, aa : aas, end : 1..MaxNodes]

OutSeqs(sizes, aas) == UNION { [1..k -> OutRecs(sizes, aas)] : k \in 0..MaxOutputs }

(* a graph of n nodes in topological order: node i runs at timestamp i and
   every value is live from its node to a node not before it *)
IsGraph(g, n, hs, hd, os) ==
    /\ \A i \in 1..n : \A k \in 1..Len(os[i]) : os[i][k].end \in i..n
    /\ g = [i \in 1..n |-> OpNode(i, hs[i], hd[i], os[i])]

InitCall ==
    /\ pc = "start"
    /\ err = "none"
    /\ strat = "unset"
    /\ graph0 = graph
    /\ idx = 0
    /\ allocs = EmptyMap
    /\ managed_live_ranges = EmptyMap
    /\ live_range_node_header = <<>>
    /\ allocation_plan = EmptyMap
    /\ InitNoAllocator

(* the planner reads neither the size nor the live range of an always-alive
   value: one such value stands for all of them *)
OneAlwaysAlive(n, os) ==
    \A i \in 1..n : \A k \in 1..Len(os[i]) :
        os[i][k].aa => (os[i][k].size = 1 /\ os[i][k].end = n)

InitStatic ==
    /\ mode = "static"
    /\ mem_events = <<>>
    /\ \E n \in 0..MaxNodes :
         \E hs \in [1..n -> BOOLEAN],
            os \in [1..n -> OutSeqs((0 - 1)..MaxSize, BOOLEAN)] :
            /\ OneAlwaysAlive(n, os)
            /\ IsGraph(graph, n, hs, [i \in 1..n |-> 1], os)
    /\ InitCall

InitTrace ==
    /\ mode = "trace"
    /\ \E n \in 0..MaxPlanEvents : mem_events \in [1..n -> Events]
    /\ Chronological(mem_events)
    /\ \E n \in 0..MaxNodes :
         \E hd \in [1..n -> Tags] :
            IsGraph(graph, n, [i \in 1..n |-> TRUE], hd, [i \in 1..n |-> <<>>])
    /\ InitCall

Init == InitStatic \/ InitTrace

(* the live ranges a trace can yield: Allocate at begin, Free strictly later *)
TraceRanges ==
    { l \in [begin : 1..MaxTime, end : 1..MaxTime] : l.begin < l.end }

(* what the extraction hands over for a well-paired trace: one entry for each
   Free, in the order of the Frees, framed by the Allocate's time, and the
   size recorded for each range *)
Extracted(lrnh, mlr) ==
    /\ \E n \in 1..MaxRanges :
          lrnh \in [1..n -> [lvr : TraceRanges,
                             frame : [time : 1..MaxTime, node_schema : Tags,
                                      node_header : Tags]]]
    /\ \A k \in 1..Len(lrnh) : lrnh[k].frame.time = lrnh[k].lvr.begin
    /\ \A k \in 1..(Len(lrnh) - 1) : lrnh[k].lvr.end <= lrnh[k + 1].lvr.end
    /\ mlr \in [{ lrnh[k].lvr : k \in 1..Len(lrnh) } -> Sizes]

InitPlanTraced ==
    /\ mode = "plan_traced"
    /\ pc = "start"
    /\ err = "none"
    /\ strat = "unset"
    /\ mem_events = <<>>
    /\ idx = 0
    /\ allocs = EmptyMap
    /\ allocation_plan = EmptyMap
    /\ Extracted(live_range_node_header, managed_live_ranges)
    /\ \E n \in 0..MaxNodes :
         \E hd \in [1..n -> Tags] :
            IsGraph(graph, n, [i \in 1..n |-> TRUE], hd, [i \in 1..n |-> <<>>])
    /\ graph0 = graph
    /\ InitNoAllocator

(* a caller of insertPreAllocTensorNodes: the storage node is in front, its
   total_size is whatever the caller gave it *)
InitPreAlloc ==
    /\ mode = "prealloc"
    /\ pc = "start"
    /\ err = "none"
    /\ mem_events = <<>>
    /\ idx = 0
    /\ allocs = EmptyMap
    /\ Extracted(live_range_node_header, managed_live_ranges)
    /\ strat \in {"LINEAR_SCAN", "GREEDY_BY_SIZE"}
    /\ allocation_plan = IF strat = "LINEAR_SCAN"
                         THEN linearScanHeuristic(managed_live_ranges)
                         ELSE greedyBySize(managed_live_ranges)
    /\ \E n \in 0..MaxNodes :
         \E hd \in [1..n -> Tags],
            total \in 0..getTotalAllocationSize(allocation_plan) :
            \E g \in { [i \in 1..n |-> OpNode(i, TRUE, hd[i], <<>>)] } :
               graph = insertAllocStorageNode(g, total)
    /\ graph0 = graph
    /\ InitNoAllocator

InitMat == InitStatic \/ InitPlanTraced \/ InitPreAlloc

NextMat == PlanMemory \/ PlanTraced \/ PreAllocDirect

SpecMat == InitMat /\ [][NextMat]_vars

Next == PlanMemory \/ TraceEnter \/ SweepAllocate \/ SweepFree \/ TraceFinish

Spec == Init /\ [][Next]_vars

----------------------------------------------------------------------------
(* MemoryTracingAllocator and WithProfileAllocationsGuard *)

MaxGuards == 2   \* profiling guards alive at once
MaxCalls == 3    \* allocate and release calls on the device

(* the planner is not running while the allocators are exercised *)
IdlePlanner ==
    /\ pc = "idle"
    /\ err = "none"
    /\ strat = "unset"
    /\ graph = <<>>
    /\ graph0 = <<>>
    /\ mem_events = <<>>
    /\ idx = 0
    /\ allocs = EmptyMap
    /\ managed_live_ranges = EmptyMap
    /\ live_range_node_header = <<>>
    /\ allocation_plan = EmptyMap

(* the temporary MemoryTracingAllocator{device_type} built in the constructor
   of the k-th guard; it is destroyed before the constructor returns *)
TemporaryOf(k) == <<"temporary", k>>

(* the heap instance tracer_ of the k-th guard, copied from the temporary *)
TracerOf(k) == <<"tracer", k>>

(* MemoryTracingAllocator(device_type): SetAllocator(device_type, this), run
   by the temporary the guard's constructor builds *)
Installed(k) == TemporaryOf(k)

RestoreTargetDefault(g) == DefaultAllocator

(* ~WithProfileAllocationsGuard: SetAllocator(device_type_, &tracer_->orig_allocator_) *)
RestoreTarget(g) == g.orig

AllocateEvent(p, n) == [type |-> "Allocate", ptr_addr |-> p, size |-> n]

FreeEvent(p, n) == [type |-> "Free", ptr_addr |-> p, size |-> n]

(* WithProfileAllocationsGuard::getAllocationTraces *)
getAllocationTraces(g) == g.traces

(* WithProfileAllocationsGuard(device_type): the temporary captures the
   allocator registered for the device and registers itself; tracer_ is a copy
   of it with an empty event list.  before and expected are history. *)
GuardCreate ==
    /\ mode = "guard" /\ apc = "ok"
    /\ Len(guards) < MaxGuards
    /\ guards' = Append(guards, [orig |-> registered,
                                 traces |-> <<>>,
                                 temp_traces |-> <<>>,
                                 before |-> registered,
                                 expected |-> <<>>])
    /\ registered' = Installed(Len(guards) + 1)
    /\ last' = [op |-> "create"]
    /\ UNCHANGED <<planVars, handles, calls, allocs_, apc>>

(* ~WithProfileAllocationsGuard, at the end of the scope or while an exception
   unwinds it; handles made through the guard's allocator outlive it *)
GuardDestroy ==
    /\ mode = "guard" /\ apc = "ok"
    /\ guards # <<>>
    /\ \E path \in {"return", "unwind"} :
         LET k == Len(guards) IN
         /\ registered' = RestoreTarget(guards[k])
         /\ guards' = SubSeq(guards, 1, k - 1)
         /\ handles' = [i \in DOMAIN handles |->
                          IF handles[i].via = registered
                          THEN [handles[i] EXCEPT !.via = <<"gone", k>>]
                          ELSE handles[i]]
         /\ last' = [op |-> "destroy", path |-> path, before |-> guards[k].before]
    /\ UNCHANGED <<planVars, calls, allocs_, apc>>

(* pointers the default allocator has handed out and not yet got back *)
HeldPtrs == { handles[i].ptr : i \in { j \in DOMAIN handles : handles[j].via = DefaultAllocator } }

(* GetAllocator(device)->allocate(n).  With no guard the default allocator
   serves the call.  With a guard the registered pointer is the destroyed
   temporary: the call either faults or runs MemoryTracingAllocator::allocate
   on the dead object, which delegates down the chain of captured allocators,
   asserts a current frame, appends an Allocate event to the temporary's own
   list and wraps the pointer; each outer temporary's handle is the local
   orig_ptr of the next inner call and is released when that call returns,
   which appends a Free whose size is read through a dangling reference. *)
DeviceAllocate ==
    /\ mode = "guard" /\ apc = "ok"
    /\ Len(calls) < MaxCalls
    /\ \E n \in Sizes, p \in Ptrs \ HeldPtrs, frame \in BOOLEAN,
          stale \in BOOLEAN, d \in 0..MaxSize :
         LET top == Len(guards) IN
         /\ calls' = Append(calls, [op |-> "allocate", size |-> n])
         /\ IF registered = DefaultAllocator
            THEN /\ handles' = Append(handles, [ptr |-> p, size |-> n, via |-> DefaultAllocator])
                 /\ last' = [op |-> "allocate", ok |-> TRUE, ptr |-> p, size |-> n]
                 /\ UNCHANGED <<guards, apc>>
            ELSE IF ~stale
            THEN /\ apc' = "crashed"
                 /\ last' = [op |-> "allocate", ok |-> FALSE]
                 /\ UNCHANGED <<guards, handles>>
            ELSE IF ~frame
            THEN /\ last' = [op |-> "allocate", ok |-> FALSE]
                 /\ UNCHANGED <<guards, handles, apc>>
            ELSE /\ guards' = [k \in DOMAIN guards |->
                                 [guards[k] EXCEPT
                                    !.temp_traces =
                                        IF k = top
                                        THEN Append(@, AllocateEvent(p, n))
                                        ELSE @ \o <<AllocateEvent(p, n), FreeEvent(p, d)>>,
                                    !.expected =
                                        IF k = top
                                        THEN Append(@, AllocateEvent(p, n))
                                        ELSE @]]
                 /\ handles' = Append(handles, [ptr |-> p, size |-> n, via |-> registered])
                 /\ last' = [op |-> "allocate", ok |-> TRUE, ptr |-> p, size |-> n]
                 /\ UNCHANGED apc
    /\ UNCHANGED <<planVars, registered, allocs_>>

Without(q, i) == SubSeq(q, 1, i - 1) \o SubSeq(q, i + 1, Len(q))

(* a handle is released.  A handle of the default allocator gives its memory
   back.  A handle of a tracing allocator runs the deleter lambda, which holds
   this, bt and nbytes by reference, all dead since allocate returned: the
   call either faults or appends a Free event to the temporary's list with
   whatever size the dead nbytes now reads; without a current frame
   currentFrameId().value() throws inside the deleter. *)
Release ==
    /\ mode = "guard" /\ apc = "ok"
    /\ Len(calls) < MaxCalls
    /\ \E i \in DOMAIN handles, frame \in BOOLEAN, stale \in BOOLEAN, d \in 0..MaxSize :
         LET h == handles[i] IN
         /\ calls' = Append(calls, [op |-> "release", size |-> h.size])
         /\ IF h.via = DefaultAllocator
            THEN /\ handles' = Without(handles, i)
                 /\ last' = [op |-> "release", ok |-> TRUE]
                 /\ UNCHANGED <<guards, apc>>
            ELSE IF ~stale \/ ~frame
            THEN /\ apc' = "crashed"
                 /\ last' = [op |-> "release", ok |-> FALSE]
                 /\ UNCHANGED <<guards, handles>>
            ELSE /\ handles' = Without(handles, i)
                 /\ last' = [op |-> "release", ok |-> TRUE]
                 /\ guards' = [k \in DOMAIN guards |->
                                 IF h.via = TemporaryOf(k)
                                 THEN [guards[k] EXCEPT
                                         !.temp_traces = Append(@, FreeEvent(h.ptr, d)),
                                         !.expected = Append(@, FreeEvent(h.ptr, h.size))]
                                 ELSE guards[k]]
                 /\ UNCHANGED apc
    /\ UNCHANGED <<planVars, registered, allocs_>>

InitGuard ==
    /\ mode = "guard"
    /\ IdlePlanner
    /\ InitNoAllocator

NextGuard == GuardCreate \/ GuardDestroy \/ DeviceAllocate \/ Release

SpecGuard == InitGuard /\ [][NextGuard]_vars

----------------------------------------------------------------------------
(* MemoryPlanningAllocator: replays a plan at run time *)

MaxPushes == 3   \* push_allocation calls that are accepted
MaxOffset == 1   \* largest offset of a region in its buffer

Devices == {"cpu", "cuda"}

(* the device the allocator was built for *)
device_type_ == registered[2]

(* static_cast<uint8_t*>(buffer.data()) + offset *)
RegionStart(start, offset) == start + offset

(* the check of push_allocation *)
DeviceAccepted(device_type, own) == device_type = own

DeviceAcceptedAlways(device_type, own) == TRUE

(* the check of allocate, made on the region that was just popped *)
SizeAccepted(size, nbytes) == size = nbytes

(* push_allocation(buffer, size, offset, device_type); every pushed region
   carries a serial number, and calls keeps the regions not yet handed out *)
PushAllocation ==
    /\ mode = "replay" /\ apc = "ok"
    /\ Len(handles) + Len(calls) < MaxPushes
    /\ \E start \in Ptrs, size \in 0..MaxSize, offset \in 0..MaxOffset,
          device_type \in Devices :
         IF ~DeviceAccepted(device_type, device_type_)
         THEN /\ last' = [op |-> "push", ok |-> FALSE, device_type |-> device_type,
                          before |-> allocs_]
              /\ UNCHANGED <<allocs_, calls>>
         ELSE LET region == [size |-> size,
                             ptr |-> RegionStart(start, offset),
                             serial |-> Len(handles) + Len(calls) + 1]
              IN /\ allocs_' = Append(allocs_, region)
                 /\ calls' = Append(calls, region)
                 /\ last' = [op |-> "push", ok |-> TRUE, device_type |-> device_type,
                             before |-> allocs_]
    /\ UNCHANGED <<planVars, registered, guards, handles, apc>>

(* allocate(nbytes): top, pop, then the size check.  On an empty stack top and
   pop are undefined: the call faults, or reads some pair from dead storage
   and goes on with it, leaving the stack corrupt.  Address 0 stands for any
   address that is no pushed region's. *)
ReplayAllocate ==
    /\ mode = "replay" /\ apc = "ok"
    /\ \E nbytes \in 0..MaxSize, stale \in BOOLEAN,
          junk \in [size : 0..MaxSize, ptr : {0}, serial : {0}] :
         IF allocs_ # <<>>
         THEN LET alloc == allocs_[Len(allocs_)] IN
              /\ allocs_' = SubSeq(allocs_, 1, Len(allocs_) - 1)
              /\ IF SizeAccepted(alloc.size, nbytes)
                 THEN /\ last' = [op |-> "allocate", ok |-> TRUE, nbytes |-> nbytes,
                                  region |-> alloc, pending |-> calls]
                      /\ handles' = Append(handles, alloc)
                      /\ calls' = SelectSeq(calls, LAMBDA r : r.serial # alloc.serial)
                 ELSE /\ last' = [op |-> "allocate", ok |-> FALSE, nbytes |-> nbytes,
                                  region |-> alloc, pending |-> calls]
                      /\ UNCHANGED <<handles, calls>>
              /\ UNCHANGED apc
         ELSE /\ apc' = IF stale THEN "corrupt" ELSE "crashed"
              /\ last' = [op |-> "allocate",
                          ok |-> stale /\ SizeAccepted(junk.size, nbytes),
                          nbytes |-> nbytes, region |-> junk, pending |-> calls]
              /\ UNCHANGED <<allocs_, handles, calls>>
    /\ UNCHANGED <<planVars, registered, guards>>

(* MemoryPlanningAllocator(device_type): registers itself for the device *)
InitReplay ==
    /\ mode = "replay"
    /\ IdlePlanner
    /\ \E d \in Devices : registered = <<"replay", d>>
    /\ guards = <<>>
    /\ handles = <<>>
    /\ calls = <<>>
    /\ allocs_ = <<>>
    /\ last = NoCall
    /\ apc = "ok"

NextReplay == PushAllocation \/ ReplayAllocate

SpecReplay == InitReplay /\ [][NextReplay]_vars

----------------------------------------------------------------------------
(* Reading an event list: which Allocate a Free closes *)

(* indices of the events on ptr_addr p among the first k events *)
OnPtr(p, k) == { j \in 1..k : mem_events[j].ptr_addr = p }

(* the Allocate that is open on p after the first k events: the last event
   on p, when that event is an Allocate (0 when there is none) *)
OpenAlloc(p, k) ==
    IF OnPtr(p, k) = {} THEN 0
    ELSE LET j == MaxOf(OnPtr(p, k)) IN
         IF mem_events[j].type = "Allocate" THEN j ELSE 0

OpenPtrs(k) == { p \in Ptrs : OpenAlloc(p, k) # 0 }

FreeIdx == { i \in 1..Len(mem_events) : mem_events[i].type = "Free" }

(* a Free with no open Allocate on its ptr_addr *)
OrphanFree(i) ==
    i \in FreeIdx /\ OpenAlloc(mem_events[i].ptr_addr, i - 1) = 0

(* a Free on a ptr_addr whose Allocate an earlier Free already closed *)
DoubleFree(i) ==
    /\ OrphanFree(i)
    /\ \E j \in 1..(i - 1) :
          /\ mem_events[j].type = "Free"
          /\ mem_events[j].ptr_addr = mem_events[i].ptr_addr

(* a Free whose size differs from that of the open Allocate on its ptr_addr *)
SizeMismatchFree(i) ==
    /\ i \in FreeIdx
    /\ OpenAlloc(mem_events[i].ptr_addr, i - 1) # 0
    /\ mem_events[OpenAlloc(mem_events[i].ptr_addr, i - 1)].size # mem_events[i].size

(* n Allocate/Free pairs: on every ptr_addr the events alternate Allocate,
   Free, ..., Free, and each Free repeats its Allocate's size, comes at a
   strictly later time and carries the same node_schema and node_header *)
WellPaired ==
    /\ \A i \in 1..Len(mem_events) :
          LET ev == mem_events[i]
              o == OpenAlloc(ev.ptr_addr, i - 1)
          IN IF ev.type = "Allocate" THEN o = 0
             ELSE /\ o # 0
                  /\ mem_events[o].size = ev.size
                  /\ mem_events[o].time < ev.time
                  /\ mem_events[o].node_schema = ev.node_schema
                  /\ mem_events[o].node_header = ev.node_header
    /\ OpenPtrs(Len(mem_events)) = {}

(* the k-th Free of the list, in list order *)
NthFree(k) == CHOOSE i \in FreeIdx : Cardinality({ j \in FreeIdx : j <= i }) = k

(* no Allocate among the first k events lands on a ptr_addr that is open *)
NoAllocWhileOpen(k) ==
    \A i \in 1..k :
        mem_events[i].type = "Allocate" =>
            OpenAlloc(mem_events[i].ptr_addr, i - 1) = 0

Done == pc \in {"returned", "aborted"}

----------------------------------------------------------------------------
(* Claims about getLiveRangesFromMemEvents *)

(* C2: trace round-trip.  For every event list made of n Allocate/Free pairs
   the sweep ends without an assertion failure and yields exactly n live
   ranges, the k-th being (alloc.time, free.time) of the k-th closed pair with
   the Allocate's size recorded for it. *)
C2_RoundTrip ==
    (mode = "sweep" /\ Done /\ WellPaired) =>
        /\ pc = "returned"
        /\ Len(live_range_node_header) = Cardinality(FreeIdx)
        /\ \A k \in 1..Len(live_range_node_header) :
              LET f == NthFree(k)
                  a == OpenAlloc(mem_events[f].ptr_addr, f - 1)
                  lvr == live_range_node_header[k].lvr
              IN /\ lvr = LiveRange(mem_events[a].time, mem_events[f].time)
                 /\ lvr \in DOMAIN managed_live_ranges
                 /\ managed_live_ranges[lvr] = mem_events[a].size

(* C3: open-map invariant.  After each processed event the map holds exactly
   the ptr_addr values with an Allocate not yet matched by a Free, each with
   the time and size of that Allocate (for event lists in which no ptr_addr
   is allocated while it is open), and the end-of-sweep check fails exactly
   when some Allocate was never freed. *)
C3_OpenMap ==
    /\ (pc \in {"sweep", "returned"} /\ NoAllocWhileOpen(idx)) =>
          /\ DOMAIN allocs = OpenPtrs(idx)
          /\ \A p \in DOMAIN allocs : allocs[p] = mem_events[OpenAlloc(p, idx)]
    /\ (mode = "sweep" /\ Done /\ idx = Len(mem_events)
            /\ err \notin {"free_without_alloc", "free_mismatch"}) =>
          (err = "not_all_freed" <=> OpenPtrs(Len(mem_events)) # {})

(* C4: an event list holding a Free on a ptr_addr with no open Allocate (never
   allocated, or already closed by an earlier Free) is never accepted: the
   sweep does not return, so no live range is yielded. *)
C4_OrphanFreeRejected ==
    (\E i \in 1..Len(mem_events) : OrphanFree(i)) => pc # "returned"

C4_Witness ==
    /\ mode = "sweep"
    /\ pc = "aborted"
    /\ err = "not_all_freed"
    /\ \E i \in 1..Len(mem_events) : DoubleFree(i)

(* C5: a Free whose size differs from the size of the open Allocate on the
   same ptr_addr makes extraction abort: such a list is never accepted, and
   when the Free just processed differs in size from the entry the map holds
   for its ptr_addr, the sweep has aborted at that Free. *)
C5_SizeMismatchAborts ==
    /\ (\E i \in 1..Len(mem_events) : SizeMismatchFree(i)) => pc # "returned"
    /\ (/\ idx > 0
        /\ mem_events[idx].type = "Free"
        /\ mem_events[idx].ptr_addr \in DOMAIN allocs
        /\ allocs[mem_events[idx].ptr_addr].size # mem_events[idx].size)
          => (pc = "aborted" /\ err = "free_mismatch")

C5_Witness ==
    /\ mode = "sweep"
    /\ pc = "aborted"
    /\ err = "free_mismatch"
    /\ idx = 2
    /\ SizeMismatchFree(2)
    /\ mem_events[1].time < mem_events[2].time
    /\ mem_events[1].node_schema = mem_events[2].node_schema

(* C6: on a Free, equality of node_header with the open Allocate is a required
   check: once a Free has been processed whose node_header differs from that
   of the Allocate held for its ptr_addr, all other fields matching, the sweep
   has aborted at that Free. *)
C6_HeaderChecked ==
    (/\ idx > 0
     /\ mem_events[idx].type = "Free"
     /\ mem_events[idx].ptr_addr \in DOMAIN allocs
     /\ LET ev == mem_events[idx]
            alloc == allocs[ev.ptr_addr]
        IN /\ alloc.node_header # ev.node_header
           /\ alloc.size = ev.size
           /\ alloc.time < ev.time
           /\ alloc.node_schema = ev.node_schema)
       => pc = "aborted"

----------------------------------------------------------------------------
(* Claims about planMemory and planMemoryWithTracing *)

(* positions of the inserted tensor allocation nodes *)
AllocPos(g) ==
    { p \in 1..Len(g) : g[p].kind \in {"AllocateTensor", "PreAllocateTensor"} }

(* the values planMemory manages in the graph it was handed *)
Managed == DOMAIN getManagedStuff(graph0).sizes

ManagedSize(v) == getManagedStuff(graph0).sizes[v]

ManagedRange(v) == getManagedStuff(graph0).ranges[v]

Planned == mode = "static" /\ pc = "returned" /\ strat # "NAIVE"

(* C1: any two distinct inserted AllocateTensor / PreAllocateTensor nodes
   whose tensors have overlapping live ranges carry byte intervals
   [offset, offset + size) that do not intersect. *)
C1_NoSharedBytes ==
    \A p \in AllocPos(graph), q \in AllocPos(graph) :
        (p # q /\ Overlap(graph[p].lvr, graph[q].lvr)) =>
            ~Collide(graph[p], graph[q])

C1_Witness ==
    /\ Planned
    /\ \E p \in AllocPos(graph), q \in AllocPos(graph) :
          /\ p # q
          /\ Overlap(graph[p].lvr, graph[q].lvr)
          /\ graph[p].offset + graph[p].size <= graph[q].offset
    /\ \E v \in Managed, w \in Managed : v # w /\ ManagedRange(v) = ManagedRange(w)

(* C7: whenever planning ends in a hard abort the graph is exactly as it was
   before the call: no node inserted, no input added. *)
C7_AbortLeavesGraph == pc = "aborted" => graph = graph0

C7_Witness ==
    /\ mode = "trace"
    /\ pc = "aborted"
    /\ err = "free_mismatch"
    /\ Len(graph) > 0
    /\ graph = graph0

(* C8: with strategy Naive the call ends with the node list and every node's
   inputs identical to those before the call, in static and in trace mode. *)
C8_NaiveNoOp == (strat = "NAIVE" /\ Done) => graph = graph0

C8_Witness ==
    /\ mode = "static"
    /\ strat = "NAIVE"
    /\ pc = "returned"
    /\ Managed # {}
    /\ graph = graph0

(* C9: after static materialization every producer of a managed value has
   gained exactly one input, and for every managed value there is one
   AllocateTensor node, placed before the node that produced it with nothing
   but AllocateTensor nodes between the two. *)
C9_OneAllocPerValue ==
    Planned =>
        /\ \A v \in Managed : Len(graph[PosOf(graph, v[1])].inputs) = 1
        /\ \A v \in Managed :
              /\ Cardinality({ p \in AllocPos(graph) : graph[p].val = v }) = 1
              /\ \E p \in AllocPos(graph) :
                    /\ graph[p].val = v
                    /\ p < PosOf(graph, v[1])
                    /\ \A q \in (p + 1)..(PosOf(graph, v[1]) - 1) :
                          graph[q].kind = "AllocateTensor"

(* C10: managed values with identical LiveRanges are packed independently:
   each has its own AllocateTensor node, and the size attribute of the node
   attached for a value is the storage size computed for that value. *)
C10_OwnSize ==
    Planned =>
        /\ \A p \in AllocPos(graph) : graph[p].size = ManagedSize(graph[p].val)
        /\ \A v \in Managed, w \in Managed :
              (v # w /\ ManagedRange(v) = ManagedRange(w)) =>
                  \E p \in AllocPos(graph) :
                      graph[p].val = v /\ graph[p].size = ManagedSize(v)

----------------------------------------------------------------------------
(* Claims about the materialized graph *)

(* the call went through materialization: it returned past the switch *)
Materialized ==
    /\ pc = "returned"
    /\ \/ mode = "static" /\ ~StaticEarlyReturn(strat)
       \/ mode \in {"trace", "plan_traced"} /\ ~TraceEarlyReturn(strat)

StoragePos(g) == { p \in 1..Len(g) : g[p].kind = "AllocateStorage" }

(* the largest offset + size of a plan, 0 for the empty plan *)
IsTotalOf(t, plan) ==
    /\ \A l \in DOMAIN plan : plan[l].offset + plan[l].size <= t
    /\ IF DOMAIN plan = {} THEN t = 0
       ELSE \E l \in DOMAIN plan : plan[l].offset + plan[l].size = t

(* C11: after materialization with a non-Naive strategy, in static mode and in
   trace mode, the graph holds exactly one AllocateStorage node, that node is
   the first node of the graph, and its total_size is the largest
   offset + size over the regions of the plan (0 for the empty plan). *)
C11_StorageFirst ==
    Materialized =>
        /\ Cardinality(StoragePos(graph)) = 1
        /\ graph[1].kind = "AllocateStorage"
        /\ IsTotalOf(graph[1].total_size, allocation_plan)

(* the static half of C11, which the code keeps *)
C11_StorageFirstStatic == mode = "static" => C11_StorageFirst

(* a static materialization with two tensors stacked in the arena *)
C11_StaticWitness ==
    /\ mode = "static"
    /\ Materialized
    /\ Cardinality(AllocPos(graph)) = 2
    /\ graph[1].total_size > MaxSize

(* the live ranges the trace materializer was handed, and the region the
   plan gives each *)
TracedRanges ==
    { live_range_node_header[k].lvr : k \in 1..Len(live_range_node_header) }

(* C12: every inserted allocation node stays inside the arena: offset + size
   of each AllocateTensor and each PreAllocateTensor node is at most the
   total_size of the AllocateStorage node, and materialization asserts this
   for every placement, so that a placement reaching past total_size ends the
   call in an abort. *)
C12_InArena ==
    /\ (pc = "returned" /\ StoragePos(graph) # {}) =>
          \A p \in AllocPos(graph) :
              graph[p].offset + graph[p].size
                  <= graph[MinOf(StoragePos(graph))].total_size
    /\ (mode = "prealloc" /\ Done) =>
          ((\E l \in TracedRanges :
               RegionOf(allocation_plan, l).offset + RegionOf(allocation_plan, l).size
                   > graph0[1].total_size)
              => pc = "aborted")

(* the half of C12 the code keeps: a graph the planner itself materialized
   holds no allocation node reaching past total_size *)
C12_InArenaPlanned == mode # "prealloc" => C12_InArena

C12_PlannedWitness ==
    /\ Materialized
    /\ \E p \in AllocPos(graph) :
          /\ graph[p].offset > 0
          /\ graph[p].offset + graph[p].size = graph[MinOf(StoragePos(graph))].total_size

PrePos(g) == { p \in 1..Len(g) : g[p].kind = "PreAllocateTensor" }

(* the node a PreAllocateTensor node was inserted before: the first node
   behind it that is not a PreAllocateTensor node (0 when there is none) *)
NodeBehind(g, p) ==
    LET later == { q \in (p + 1)..Len(g) : g[q].kind # "PreAllocateTensor" }
    IN IF later = {} THEN 0 ELSE MinOf(later)

(* the node_header of the groups a live range belongs to *)
HeadersOf(l) ==
    { live_range_node_header[k].frame.node_header :
        k \in { j \in 1..Len(live_range_node_header) :
                  live_range_node_header[j].lvr = l } }

(* the trace materializer ran to its end *)
PreAllocated ==
    /\ pc = "returned"
    /\ \/ mode = "prealloc"
       \/ mode \in {"trace", "plan_traced"} /\ ~TraceEarlyReturn(strat)

(* every group's node_header is the header of a node of the graph *)
HeadersPresent ==
    \A k \in 1..Len(live_range_node_header) :
        \E i \in 1..Len(graph0) :
            getHeader(graph0[i]) = live_range_node_header[k].frame.node_header

(* C13: in trace mode the cursor advances to a node whose canonical schema
   string equals the group's node_header and one PreAllocateTensor node for
   each live range of the group is inserted right before that node: when the
   graph holds a node for every group, after the call there are as many
   PreAllocateTensor nodes as live ranges, and each stands before an operator
   node whose header is the node_header of a group of its live range, never
   before a node with another header. *)
C13_CursorMatches ==
    (PreAllocated /\ HeadersPresent) =>
        /\ Cardinality(PrePos(graph)) = Len(live_range_node_header)
        /\ \A p \in PrePos(graph) :
              LET q == NodeBehind(graph, p)
              IN /\ q # 0
                 /\ graph[q].kind = "op"
                 /\ graph[q].header \in HeadersOf(graph[p].lvr)

(* C14: insertion order.  The AllocateTensor nodes of a static plan are
   created in ascending order of their live range's begin; the
   PreAllocateTensor nodes of trace mode are created group after group in
   ascending FrameNodeId.time (the begin of the group's ranges), inside a
   group in ascending begin, and a node created later never stands before one
   created earlier (the cursor does not move backwards). *)
C14_InsertionOrder ==
    \A p \in AllocPos(graph), q \in AllocPos(graph) :
        graph[p].id < graph[q].id =>
            /\ graph[p].lvr.begin <= graph[q].lvr.begin
            /\ graph[p].kind = "PreAllocateTensor" => p < q

C14_Witness ==
    /\ mode = "static"
    /\ Materialized
    /\ \E p \in AllocPos(graph), q \in AllocPos(graph) :
          graph[p].id < graph[q].id /\ graph[p].lvr.begin < graph[q].lvr.begin

(* the trace half of C14 with two groups at different times *)
C14_TraceWitness ==
    /\ PreAllocated
    /\ \E p \in PrePos(graph), q \in PrePos(graph) :
          graph[p].id < graph[q].id /\ graph[p].lvr.begin < graph[q].lvr.begin

(* C19: GreedyByBreadth is not a strategy of trace mode: with it, or with any
   strategy other than LinearScan and GreedyBySize, the call inserts no
   AllocateStorage and no PreAllocateTensor node and leaves the graph as it
   was. *)
C19_BreadthNotTraced ==
    (mode \in {"trace", "plan_traced"} /\ Done
        /\ strat \notin {"LINEAR_SCAN", "GREEDY_BY_SIZE"}) =>
        /\ graph = graph0
        /\ StoragePos(graph) = {}
        /\ PrePos(graph) = {}

C19_Witness ==
    /\ mode = "plan_traced"
    /\ strat = "GREEDY_BY_BREADTH"
    /\ pc = "returned"
    /\ Len(graph) > 0
    /\ graph = graph0

----------------------------------------------------------------------------
(* Claims about the static extraction *)

(* C17: static extraction manages eligible values only: every value of sizes
   is an output of a node with an out-variant, is not always-alive and has a
   computable, strictly positive storage size, which is the size recorded;
   out_nodes lists exactly the nodes with an out-variant, in graph order; a
   value without a computable size, or of size 0, is left out without
   aborting the call, and no AllocateTensor node is made for it. *)
C17_EligibleOnly ==
    mode = "static" =>
        LET ms == getManagedStuff(graph0) IN
        /\ \A v \in DOMAIN ms.sizes :
              /\ v \in ValuesOf(graph0)
              /\ graph0[PosOf(graph0, v[1])].hasOut
              /\ ~OutOf(graph0, v).aa
              /\ OutOf(graph0, v).size > 0
              /\ ms.sizes[v] = OutOf(graph0, v).size
        /\ \A k \in 1..Len(ms.out_nodes) : graph0[ms.out_nodes[k]].hasOut
        /\ \A k \in 1..(Len(ms.out_nodes) - 1) : ms.out_nodes[k] < ms.out_nodes[k + 1]
        /\ \A i \in 1..Len(graph0) :
              graph0[i].hasOut => \E k \in 1..Len(ms.out_nodes) : ms.out_nodes[k] = i
        /\ Done => pc = "returned"
        /\ \A p \in AllocPos(graph) :
              /\ graph[p].val \in ValuesOf(graph0)
              /\ graph0[PosOf(graph0, graph[p].val[1])].hasOut
              /\ ~OutOf(graph0, graph[p].val).aa
              /\ OutOf(graph0, graph[p].val).size > 0

(* a plan over a graph that holds a managed value, a value without a
   computable size on a node with an out-variant, an always-alive value and a
   sized value on a node without an out-variant *)
C17_Witness ==
    /\ mode = "static"
    /\ Materialized
    /\ AllocPos(graph) # {}
    /\ \E v \in ValuesOf(graph0) :
          graph0[PosOf(graph0, v[1])].hasOut /\ OutOf(graph0, v).size < 0
    /\ \E v \in ValuesOf(graph0) : OutOf(graph0, v).aa
    /\ \E v \in ValuesOf(graph0) :
          ~graph0[PosOf(graph0, v[1])].hasOut /\ OutOf(graph0, v).size > 0

(* C18: ranges has exactly one entry for each sized value, the value's entry
   in the liveness map, and none for any other value; planMemory plans and
   materializes live ranges of the liveness map only. *)
C18_RangesFromLiveness ==
    mode = "static" =>
        LET ms == getManagedStuff(graph0) IN
        /\ DOMAIN ms.ranges = DOMAIN ms.sizes
        /\ \A v \in DOMAIN ms.ranges :
              v \in DOMAIN Liveness(graph0) /\ ms.ranges[v] = Liveness(graph0)[v]
        /\ Done =>
              DOMAIN managed_live_ranges
                  = { Liveness(graph0)[v] : v \in DOMAIN ms.sizes }
        /\ DOMAIN allocation_plan \subseteq
              { Liveness(graph0)[v] : v \in DOMAIN ms.sizes }
        /\ \A p \in AllocPos(graph) :
              /\ graph[p].val \in DOMAIN ms.sizes
              /\ graph[p].lvr = Liveness(graph0)[graph[p].val]

(* a plan over a graph whose liveness map holds a value that is not sized *)
C18_Witness ==
    /\ mode = "static"
    /\ Materialized
    /\ AllocPos(graph) # {}
    /\ \E v \in DOMAIN Liveness(graph0) : v \notin Managed

----------------------------------------------------------------------------
(* Claims about the profiling guard *)

(* the guard on top of the stack *)
TopGuard == guards[Len(guards)]

(* the tracing allocators of the k-th guard *)
MadeBy(k) == {TemporaryOf(k), TracerOf(k)}

(* C15: scoped install and restore.  A guard captures the allocator that is
   registered when it is created and a tracing allocator of that guard is
   registered instead: while guards are alive the registered allocator is one
   the innermost guard made; after a guard is destroyed, by return or by
   unwinding, the registered allocator is again the one that was registered
   just before that guard was created, also for nested guards. *)
C15_ScopedInstallRestore ==
    mode = "guard" =>
        /\ \A k \in DOMAIN guards :
              /\ guards[k].orig = guards[k].before
              /\ k = 1 => guards[k].before = DefaultAllocator
              /\ k > 1 => guards[k].before \in MadeBy(k - 1)
        /\ guards # <<>> =>
              /\ registered \in MadeBy(Len(guards))
              /\ registered # TopGuard.before
        /\ guards = <<>> => registered = DefaultAllocator
        /\ last.op = "destroy" => registered = last.before

(* an inner guard was destroyed while an exception unwound its scope and the
   outer guard's allocator is registered again *)
C15_RestoreWitness ==
    /\ mode = "guard"
    /\ last.op = "destroy"
    /\ last.path = "unwind"
    /\ Len(guards) = 1
    /\ registered # DefaultAllocator

(* C16: while a guard is alive the list getAllocationTraces returns holds, in
   order, one Allocate event for every allocate(n) on the device and one Free
   event, with the ptr_addr and the size n of its Allocate, for every release
   of a handle that allocate returned; the registered allocator is the tracer
   whose list the guard returns. *)
C16_TracesComplete ==
    (mode = "guard" /\ apc = "ok") =>
        \A k \in DOMAIN guards :
            /\ getAllocationTraces(guards[k]) = guards[k].expected
            /\ (k = Len(guards) /\ guards[k].expected # <<>>) => registered = TracerOf(k)

(* what the code does instead: the guard's list stays empty whatever happens *)
C16_TracesEmpty ==
    mode = "guard" => \A k \in DOMAIN guards : getAllocationTraces(guards[k]) = <<>>

(* an allocate and the release of its handle both ran to completion under a
   guard, and the Free the dead temporary recorded has another size than its
   Allocate *)
C16_EmptyWitness ==
    /\ mode = "guard" /\ apc = "ok"
    /\ Len(guards) = 1
    /\ Len(TopGuard.expected) = 2
    /\ Len(TopGuard.temp_traces) = 2
    /\ TopGuard.temp_traces[2].type = "Free"
    /\ TopGuard.temp_traces[2].size # TopGuard.temp_traces[1].size

----------------------------------------------------------------------------
(* Claims about the replay allocator *)

(* the regions allocate has taken off the stack *)
Real(q) == SelectSeq(q, LAMBDA r : r.serial > 0)

(* C20: over any sequence of push_allocation and allocate calls, an allocate
   that succeeds returns the pointer of the most recently pushed region that
   was not handed out before and whose size is the size asked for; no region
   is handed out twice; a push_allocation for another device is rejected and
   leaves the pending regions as they were. *)
C20_ReplayLifo ==
    mode = "replay" =>
        /\ (last.op = "allocate" /\ last.ok) =>
              /\ last.pending # <<>>
              /\ last.region = last.pending[Len(last.pending)]
              /\ last.region.size = last.nbytes
        /\ \A i, j \in DOMAIN handles :
              handles[i].serial = handles[j].serial => i = j
        /\ (last.op = "push" /\ last.device_type # device_type_) =>
              ~last.ok /\ allocs_ = last.before
        /\ (last.op = "push" /\ last.ok) =>
              /\ last.device_type = device_type_
              /\ Len(allocs_) = Len(last.before) + 1

(* the same with what allocate actually consumes: a successful allocate on a
   non-empty stack returns the region on top of the stack, sizes equal, and
   takes it off; a failed one takes it off as well *)
C20_StackDiscipline ==
    (mode = "replay" /\ apc = "ok") =>
        /\ allocs_ = SelectSeq(calls, LAMBDA r :
                        \E k \in DOMAIN allocs_ : allocs_[k].serial = r.serial)
        /\ (last.op = "allocate" /\ last.ok) =>
              /\ last.region.serial > 0
              /\ last.region.size = last.nbytes
              /\ handles[Len(handles)] = last.region
        /\ \A i, j \in DOMAIN handles :
              handles[i].serial = handles[j].serial => i = j
        /\ (last.op = "push" /\ last.device_type # device_type_) =>
              ~last.ok /\ allocs_ = last.before

(* a region was handed out after a push for the wrong device was rejected *)
C20_StackWitness ==
    /\ mode = "replay" /\ apc = "ok"
    /\ last.op = "push" /\ ~last.ok
    /\ handles # <<>>
    /\ allocs_ # <<>>

====
